---- MODULE Spec2Model ----
(***************************************************************************)
(* ChemDocGenius: the document store and its HTTP handlers                 *)
(* (server/routes.ts over MemStorage), the AI extraction client            *)
(* (MistralService.extractStructuredData) and its normalization steps.     *)
(*                                                                         *)
(* Spec         the HTTP handlers over the in-memory store                 *)
(* MemSpec      MemStorage.createDocument / updateDocument called directly *)
(* ExtractSpec  one extractStructuredData call against the chat endpoint   *)
(* NormSpec     the id-assignment and section-synthesis steps on raw JSON  *)
(* SettingsSpec the settings endpoints, connection test included           *)
(* TableSpec    the table handlers of the review step                      *)
(* GenSpec      the generate endpoint on a stored document                 *)
(* WizardSpec   the five-step pipeline of the client (PipelineProvider)    *)
(* PdfSpec      the vertical layout of DocumentGenerator.generatePDF       *)
(*                                                                         *)
(* A stored document keeps the fields the handlers read or write by name   *)
(* (id, status, extractedData, createdAt, processedAt); succeeded records  *)
(* whether a process call on it ever succeeded.  extractedData is a token: *)
(* the store never looks inside it.                                        *)
(***************************************************************************)
EXTENDS Integers, Sequences, FiniteSets, TLC

VARIABLES documents, nextId, settings, clock, inflight, served, response, mem, call, norm,
          probe, request, table, pipeline, pdf

vars == <<documents, nextId, settings, clock, inflight, served, response, mem, call, norm,
          probe, request, table, pipeline, pdf>>

(***************************************************************************)
(* Bounds                                                                  *)
(***************************************************************************)
\* number of createDocument calls in one behaviour (ids are never reused)
MaxUploads == 1
\* largest reading of the clock (new Date())
MaxClock == 1
\* process requests that may be awaiting the AI service at the same time
MaxInFlight == 2
\* requests accepted in one behaviour
MaxRequests == 4
\* direct calls of MemStorage methods in one behaviour
MaxCalls == 3
\* length of the raw AI field list
MaxFields == 2
\* connection tests that may be in flight at the same time
MaxProbes == 1
\* rows of the edited table, header included
MaxRows == 3
\* section headers and fields drawn into one PDF
MaxPdfItems == 8
\* uploads made through the wizard in one behaviour
MaxWizardUploads == 3

(***************************************************************************)
(* Values                                                                  *)
(***************************************************************************)
\* a key that an update payload or request body does not carry
AbsentS == "<absent>"
AbsentT == 0 - 2
AbsentId == 0 - 3
\* null timestamp
NoTime == 0 - 1
\* null extractedData
NullData == "null"
\* a falsy, non-null JSON value (false, 0, "")
FalsyData == "falsy"
\* values that pass extractedDataSchema.parse
ValidData == {"d1", "d2"}
\* a truthy value that extractedDataSchema.parse rejects
BadData == "bad"

Statuses == {"uploaded", "processing", "processed", "error", "completed"}

Ids == 1..MaxUploads
\* an id under which nothing was ever stored
UnknownId == 0

Times == 0..MaxClock
\* a timestamp later than every reading of the clock, as a request body may carry
FutureTime == MaxClock + 1

NoSettings == [id |-> 0, apiKey |-> "", encryptedApiKey |-> "", connectionStatus |-> "none"]
NoKey == ""

\* the response sent by the latest step: the handler, the id of the request,
\* the HTTP status (0 while the request is still being served) and the message or data
NoResponse == [op |-> "none", id |-> 0, code |-> 0, body |-> "none"]
Responded(op, id, code, body) == [op |-> op, id |-> id, code |-> code, body |-> body]

IdleRequest == [pc |-> "idle", id |-> 0]
Slots == 1..MaxInFlight

\* POST /api/settings/test requests that may be awaiting the AI service
Probes == 1..MaxProbes
IdleProbe == [pc |-> "idle", snapshot |-> NoSettings]

\* the body of the latest POST /api/settings
NoRequest == [apiKey |-> AbsentS, encryptedApiKey |-> AbsentS, connectionStatus |-> AbsentS]

\* the value of the table field open in the review step: its rows, and the
\* latest editing operation with its row index
NoTable == [value |-> <<>>, op |-> "none", rowIndex |-> 0]

\* PipelineProvider after construction: useState(1), useState(null); no
\* mutation pending, no handler run yet.  currentDocument is the id of the
\* document held (0 for null) and status its status field
IdlePipeline ==
  [currentStep |-> 1, currentDocument |-> 0, status |-> "none",
   uploading |-> FALSE, processing |-> FALSE, saving |-> FALSE,
   lastAction |-> "none"]

\* no PDF being laid out.  items counts the headers and fields drawn, last
\* is the latest item and lowest the bottom edge of the lowest cell border
\* (doc.rect) it drew, 0 when it drew none; text is flowed by the library
NoPdf == [pc |-> "idle", yPosition |-> 0, pages |-> 0, items |-> 0,
          last |-> "none", lowest |-> 0]

\* the latest direct call of a MemStorage method and its argument
IdleMem ==
  [op |-> "none", id |-> 0,
   arg |-> [id |-> AbsentId, status |-> AbsentS, extractedData |-> AbsentS,
            createdAt |-> AbsentT, processedAt |-> AbsentT]]


(***************************************************************************)
(* MemStorage                                                              *)
(***************************************************************************)
\* insert.status || "uploaded", insert.extractedData || null,
\* processedAt set only for an inserted status of processed
createDocument(insert, id, now) ==
  [id |-> id,
   status |-> IF insert.status = AbsentS THEN "uploaded" ELSE insert.status,
   extractedData |-> IF insert.extractedData \in {AbsentS, NullData, FalsyData}
                     THEN NullData ELSE insert.extractedData,
   createdAt |-> now,
   processedAt |-> IF insert.status = "processed" THEN now ELSE NoTime,
   succeeded |-> FALSE]

\* updateDocument with the payload spread last: a processedAt in the payload wins
updateDocumentSpreadLast(existing, updates, now) ==
  [id |-> IF updates.id = AbsentId THEN existing.id ELSE updates.id,
   status |-> IF updates.status = AbsentS THEN existing.status ELSE updates.status,
   extractedData |-> IF updates.extractedData = AbsentS THEN existing.extractedData
                     ELSE updates.extractedData,
   createdAt |-> IF updates.createdAt = AbsentT THEN existing.createdAt ELSE updates.createdAt,
   processedAt |-> IF updates.processedAt # AbsentT THEN updates.processedAt
                   ELSE IF updates.status = "processed" THEN now ELSE existing.processedAt,
   succeeded |-> existing.succeeded]

\* { ...existing, ...updates, processedAt: updates.status === "processed" ? new Date() : existing.processedAt }
updateDocument(existing, updates, now) ==
  [id |-> IF updates.id = AbsentId THEN existing.id ELSE updates.id,
   status |-> IF updates.status = AbsentS THEN existing.status ELSE updates.status,
   extractedData |-> IF updates.extractedData = AbsentS THEN existing.extractedData
                     ELSE updates.extractedData,
   createdAt |-> IF updates.createdAt = AbsentT THEN existing.createdAt ELSE updates.createdAt,
   processedAt |-> IF updates.status = "processed" THEN now ELSE existing.processedAt,
   succeeded |-> existing.succeeded]

\* an update payload carrying only the given status and extractedData
Payload(status, data) ==
  [id |-> AbsentId, status |-> status, extractedData |-> data,
   createdAt |-> AbsentT, processedAt |-> AbsentT]

\* the partial documents a caller may pass to updateDocument: any of the
\* fields of a document, an id among them
Updates ==
  [id : {AbsentId},
   status : Statuses \cup {AbsentS},
   extractedData : {"d1", NullData, AbsentS},
   createdAt : {AbsentT},
   processedAt : {AbsentT, 0}]
  \cup {[Payload(AbsentS, AbsentS) EXCEPT !.id = UnknownId]}

\* an updateDocument that lets the first of two results stand: a document
\* that left processing takes no further processed or error status
StoreUpdateFirstWins(docs, id, updates, now) ==
  IF id \notin DOMAIN docs THEN docs
  ELSE IF updates.status \in {"processed", "error"} /\ docs[id].status # "processing"
  THEN docs
  ELSE [docs EXCEPT ![id] = updateDocument(docs[id], updates, now)]

\* an updateDocument that stores the payload under an id it does not find
StoreUpsert(docs, id, updates, now) ==
  IF id \in DOMAIN docs
  THEN [docs EXCEPT ![id] = updateDocument(docs[id], updates, now)]
  ELSE docs @@ (id :> createDocument(updates, id, now))

\* the store after updateDocument(id, updates); a missing id changes nothing
StoreUpdate(docs, id, updates, now) ==
  IF id \in DOMAIN docs
  THEN [docs EXCEPT ![id] = updateDocument(docs[id], updates, now)]
  ELSE docs

\* insertSettings.apiKey || null
KeyOrNull(k) == IF k \in {AbsentS, NoKey} THEN NoKey ELSE k

\* an update that keeps the stored key form when the payload lacks it
updateSettingsMerging(old, insert) ==
  [id |-> IF old = NoSettings THEN 1 ELSE old.id,
   apiKey |-> IF insert.apiKey = AbsentS THEN old.apiKey ELSE KeyOrNull(insert.apiKey),
   encryptedApiKey |-> IF insert.encryptedApiKey = AbsentS THEN old.encryptedApiKey
                       ELSE KeyOrNull(insert.encryptedApiKey),
   connectionStatus |-> "testing"]

\* the stored ids in insertion order
RECURSIVE StoredIds(_, _)
StoredIds(docs, upTo) ==
  IF upTo = 0 THEN <<>>
  ELSE StoredIds(docs, upTo - 1) \o (IF upTo \in DOMAIN docs THEN <<upTo>> ELSE <<>>)

\* sort((a, b) => b.createdAt - a.createdAt): stable, newest first
RECURSIVE NewestFirst(_, _)
NewestFirst(docs, ids) ==
  IF ids = <<>> THEN <<>>
  ELSE LET h == Head(ids)
           rest == NewestFirst(docs, Tail(ids))
       IN SelectSeq(rest, LAMBDA i : docs[i].createdAt > docs[h].createdAt) \o <<h>>
          \o SelectSeq(rest, LAMBDA i : docs[i].createdAt <= docs[h].createdAt)

\* Array.from(this.documents.values()).sort(...), as the ids of the documents
getAllDocuments(docs) == NewestFirst(docs, StoredIds(docs, MaxUploads))

\* this.documents.get(id): the document, or nothing (undefined)
getDocument(docs, id) == {docs[i] : i \in DOMAIN docs \cap {id}}

\* id = this.settings?.id || randomUUID(); both key forms from the payload,
\* "" and absent as null; connectionStatus is "testing" whatever the payload says
updateSettings(old, insert) ==
  [id |-> IF old = NoSettings THEN 1 ELSE old.id,
   apiKey |-> KeyOrNull(insert.apiKey),
   encryptedApiKey |-> KeyOrNull(insert.encryptedApiKey),
   connectionStatus |-> "testing"]

\* the bodies insertSettingsSchema accepts
SettingsPayloads ==
  [apiKey : {AbsentS, "k"}, encryptedApiKey : {AbsentS, "e"},
   connectionStatus : {AbsentS, "connected"}]

\* a body insertSettingsSchema rejects
InvalidSettings == [apiKey |-> "not a string", encryptedApiKey |-> AbsentS, connectionStatus |-> AbsentS]

\* a response body that still carries the encrypted key
SafeBodyLeaking(s) ==
  IF s = NoSettings THEN [hasApiKey |-> FALSE]
  ELSE [id |-> s.id, encryptedApiKey |-> s.encryptedApiKey,
        connectionStatus |-> s.connectionStatus,
        hasApiKey |-> ~(s.apiKey = NoKey /\ s.encryptedApiKey = NoKey)]

\* const { apiKey, encryptedApiKey, ...safeSettings } = settings;
\* { ...safeSettings, hasApiKey: !!(apiKey || encryptedApiKey) }, or
\* { hasApiKey: false } when no settings are stored
SafeBody(s) ==
  IF s = NoSettings THEN [hasApiKey |-> FALSE]
  ELSE [id |-> s.id, connectionStatus |-> s.connectionStatus,
        hasApiKey |-> ~(s.apiKey = NoKey /\ s.encryptedApiKey = NoKey)]

\* !settings?.apiKey && !settings?.encryptedApiKey
KeyMissing(s) == s.apiKey = NoKey /\ s.encryptedApiKey = NoKey

(***************************************************************************)
(* Raw AI JSON                                                             *)
(***************************************************************************)
\* a field without an id (missing, null or "") and without a section name
NoId == ""
NoSection == ""

\* `field_${index + 1}` and `section_${index + 1}`
FieldId(n) == "field_" \o ToString(n)
SectionId(n) == "section_" \o ToString(n)

RawIds == {NoId, "batch"} \cup {FieldId(n) : n \in 1..MaxFields}
RawSections == {NoSection, "Product", "Results", "Document Content"}
RawFields == [id : RawIds, section : RawSections]
FieldLists == UNION {[1..n -> RawFields] : n \in 0..MaxFields}

\* a section list as the AI may supply it
GivenSections ==
  << [id |-> "section1_id", title |-> "Product", content |-> "Product section",
      type |-> "field_group", preview |-> "given", fields |-> <<>>,
      selected |-> FALSE, order |-> 1] >>

\* detectedSections of the raw JSON: absent, not an array, an empty or a non-empty array
SectionInputs ==
  { [kind |-> "absent", list |-> <<>>], [kind |-> "other", list |-> <<>>],
    [kind |-> "array", list |-> <<>>], [kind |-> "array", list |-> GivenSections] }

Parsed(fieldsKind, fields, sec) ==
  [fieldsKind |-> fieldsKind, fields |-> fields,
   sectionsKind |-> sec.kind, detectedSections |-> sec.list]

\* the objects JSON.parse may return: fields an array, absent, or a truthy non-array
RawData ==
  {Parsed("array", fs, sec) : fs \in FieldLists, sec \in SectionInputs}
  \cup {Parsed(k, <<>>, sec) : k \in {"absent", "other"}, sec \in SectionInputs}

EmptyData == Parsed("absent", <<>>, [kind |-> "absent", list |-> <<>>])

(***************************************************************************)
(* Normalization (MistralService.extractStructuredData)                    *)
(***************************************************************************)
\* fields.forEach((field, index) => { if (!field.id) field.id = `field_${index + 1}` })
AssignIds(fields) ==
  [i \in 1..Len(fields) |->
     IF fields[i].id = NoId THEN [fields[i] EXCEPT !.id = FieldId(i)] ELSE fields[i]]

\* parsedData.fields.forEach throws when fields is truthy and not an array
ForEachThrows(d) == d.fieldsKind = "other"

\* if (parsedData.fields) { ...forEach... }
WithIds(d) ==
  IF d.fieldsKind = "array" THEN [d EXCEPT !.fields = AssignIds(d.fields)] ELSE d

\* field.section || "Document Content"
SectionName(f) == IF f.section = NoSection THEN "Document Content" ELSE f.section

\* grouping that starts a new group for every field
RECURSIVE GroupApart(_, _)
GroupApart(fields, groups) ==
  IF fields = <<>> THEN groups
  ELSE GroupApart(Tail(fields),
         Append(groups, [title |-> SectionName(Head(fields)), fields |-> <<Head(fields)>>]))

\* the Map built by fields.forEach: a group per section name in order of first
\* occurrence, each field pushed to the group of its name
RECURSIVE GroupFields(_, _)
GroupFields(fields, groups) ==
  IF fields = <<>> THEN groups
  ELSE LET f == Head(fields)
           name == SectionName(f)
           at == {k \in 1..Len(groups) : groups[k].title = name}
       IN GroupFields(Tail(fields),
            IF at = {}
            THEN Append(groups, [title |-> name, fields |-> <<f>>])
            ELSE [k \in 1..Len(groups) |->
                    IF k \in at THEN [groups[k] EXCEPT !.fields = Append(@, f)]
                    ELSE groups[k]])

\* if (sections.size === 0): the two minimum sections
DefaultGroups ==
  << [title |-> "Document Information", fields |-> <<>>],
     [title |-> "Content", fields |-> <<>>] >>

\* Array.from(sections.entries()).map(([title, fields], index) => ({...}))
SynthesizeSections(d) ==
  LET grouped == IF d.fieldsKind = "array" THEN GroupFields(d.fields, <<>>) ELSE <<>>
      groups == IF Len(grouped) = 0 THEN DefaultGroups ELSE grouped
  IN [i \in 1..Len(groups) |->
        [id |-> SectionId(i),
         title |-> groups[i].title,
         content |-> groups[i].title \o " section",
         type |-> "field_group",
         preview |-> IF Len(groups[i].fields) > 0
                     THEN ToString(Len(groups[i].fields)) \o " fields detected"
                     ELSE "Empty section",
         fields |-> groups[i].fields,
         selected |-> FALSE,
         order |-> i]]

\* !detectedSections || !Array.isArray(detectedSections) || detectedSections.length === 0
NeedsSections(d) == d.sectionsKind # "array" \/ Len(d.detectedSections) = 0

\* a section step that adds the synthesized sections to the ones present
\* whenever fewer than two are present
WithSectionsAppended(d) ==
  IF d.sectionsKind # "array" \/ Len(d.detectedSections) < 2
  THEN [d EXCEPT !.sectionsKind = "array",
                 !.detectedSections = @ \o SynthesizeSections(d)]
  ELSE d

\* the section step of lines 355-387
WithSections(d) ==
  IF NeedsSections(d)
  THEN [d EXCEPT !.sectionsKind = "array", !.detectedSections = SynthesizeSections(d)]
  ELSE d

\* id assignment followed by section synthesis, for data whose fields can be iterated
Normalize(d) == WithSections(WithIds(d))

IdleNorm == [pc |-> "idle", input |-> EmptyData, data |-> EmptyData, once |-> EmptyData]

\* a call of extractStructuredData: requests counts the fetch calls made,
\* throttled the 429 responses among them, last is the latest response
IdleCall ==
  [pc |-> "idle", requests |-> 0, attempt |-> 0, waited |-> 0, waitTime |-> 0,
   throttled |-> 0, last |-> "none",
   result |-> [status |-> "none", error |-> "none", data |-> EmptyData]]

storeVars == <<documents, nextId, settings, clock, inflight, served, response, mem>>

\* the wizard of the client and the PDF being laid out
viewVars == <<pipeline, pdf>>

\* connection tests in flight, the latest settings request, the table being edited
restVars == <<probe, request, table, viewVars>>

(***************************************************************************)
(* Initial state                                                           *)
(***************************************************************************)
\* the store as constructed, before any request
StoreIdle ==
  /\ documents = <<>>
  /\ nextId = 1
  /\ settings = NoSettings
  /\ clock = 0
  /\ inflight = [s \in Slots |-> IdleRequest]
  /\ served = 0
  /\ response = NoResponse
  /\ mem = IdleMem

\* no connection test in flight, no settings request made, no table open
RestIdle ==
  /\ probe = [p \in Probes |-> IdleProbe]
  /\ request = NoRequest
  /\ table = NoTable
  /\ pipeline = IdlePipeline
  /\ pdf = NoPdf

Init ==
  /\ StoreIdle
  /\ call = IdleCall
  /\ norm = IdleNorm
  /\ RestIdle

(***************************************************************************)
(* HTTP handlers                                                           *)
(***************************************************************************)
\* a request is accepted
Accept == served < MaxRequests /\ served' = served + 1

\* new Date(): a reading not earlier than the latest one; a step that does
\* not read the clock leaves it alone
Readings(reads) == IF reads THEN clock..MaxClock ELSE {clock}

\* POST /api/documents/upload without a file
UploadNoFile ==
  /\ Accept
  /\ response' = Responded("upload", UnknownId, 400, "No file uploaded")
  /\ UNCHANGED <<documents, nextId, settings, clock, inflight, mem, call, norm, restVars>>

\* POST /api/documents/upload: the record is created before the file is stored
Upload ==
  /\ Accept
  /\ nextId <= MaxUploads
  /\ \E stored \in BOOLEAN, now \in Readings(TRUE) :
       /\ documents' = documents @@ (nextId :>
             createDocument(Payload("uploaded", NullData), nextId, now))
       /\ clock' = now
       /\ response' = IF stored THEN Responded("upload", nextId, 200, "none")
                      ELSE Responded("upload", nextId, 500, "Upload failed")
  /\ nextId' = nextId + 1
  /\ UNCHANGED <<settings, inflight, mem, call, norm, restVars>>

\* POST /api/documents/:id/process on an id that is not stored
ProcessNotFound ==
  /\ Accept
  /\ \E id \in Ids \cup {UnknownId} :
       /\ id \notin DOMAIN documents
       /\ response' = Responded("process", id, 404, "Document not found")
  /\ UNCHANGED <<documents, nextId, settings, clock, inflight, mem, call, norm, restVars>>

\* POST /api/documents/:id/process with no key in Settings:
\* status is set to processing, then the handler returns 400
ProcessNoKey ==
  /\ Accept
  /\ KeyMissing(settings)
  /\ \E id \in DOMAIN documents :
       /\ documents' = StoreUpdate(documents, id, Payload("processing", AbsentS), clock)
       /\ response' = Responded("process", id, 400, "Mistral API key not configured")
  /\ UNCHANGED <<nextId, settings, clock, inflight, mem, call, norm, restVars>>

\* POST /api/documents/:id/process up to the first request to the AI service
ProcessBegin ==
  /\ Accept
  /\ ~KeyMissing(settings)
  /\ \E id \in DOMAIN documents, s \in Slots :
       /\ inflight[s].pc = "idle"
       /\ \A t \in Slots : t < s => inflight[t].pc # "idle"
       /\ documents' = StoreUpdate(documents, id, Payload("processing", AbsentS), clock)
       /\ inflight' = [inflight EXCEPT ![s] = [pc |-> "extracting", id |-> id]]
       /\ response' = Responded("process", id, 0, "pending")
  /\ UNCHANGED <<nextId, settings, clock, mem, call, norm, restVars>>

\* a catch block that also clears the stored data
ErrorUpdateClearing == Payload("error", NullData)

\* what the catch block of the process handler writes
ErrorUpdate == Payload("error", AbsentS)

\* what the process handler writes after mistralService.processDocument returned
SuccessUpdate(data) == Payload("processed", data)

\* the causes processDocument fails with
FailureCauses == {"text extraction", "AI call", "JSON parsing", "schema validation"}

\* processDocument returned the validated extraction result
ProcessSucceed ==
  /\ \E s \in Slots, data \in ValidData :
       /\ inflight[s].pc = "extracting"
       /\ \E now \in Readings(inflight[s].id \in DOMAIN documents) :
            LET id == inflight[s].id
                docs == StoreUpdate(documents, id, SuccessUpdate(data), now)
            IN /\ documents' = IF id \in DOMAIN docs
                               THEN [docs EXCEPT ![id].succeeded = TRUE] ELSE docs
               /\ response' = Responded("process", id, 200, data)
               /\ clock' = now
       /\ inflight' = [inflight EXCEPT ![s] = IdleRequest]
  /\ UNCHANGED <<nextId, settings, served, mem, call, norm, restVars>>

\* processDocument threw: the catch block
ProcessFail ==
  /\ \E s \in Slots, cause \in FailureCauses :
       /\ inflight[s].pc = "extracting"
       /\ documents' = StoreUpdate(documents, inflight[s].id, ErrorUpdate, clock)
       /\ response' = Responded("process", inflight[s].id, 500, cause)
       /\ inflight' = [inflight EXCEPT ![s] = IdleRequest]
  /\ UNCHANGED <<nextId, settings, clock, served, mem, call, norm, restVars>>

\* the bodies PATCH /api/documents/:id may receive
PatchBodies ==
  [id : {AbsentId},
   status : Statuses \cup {AbsentS},
   extractedData : {"d1", NullData, FalsyData, BadData, AbsentS},
   createdAt : {AbsentT, FutureTime},
   processedAt : {AbsentT}]

\* if (updates.extractedData): only a truthy value is validated
NeedsValidation(body) == body.extractedData \notin {AbsentS, NullData, FalsyData}

\* PATCH /api/documents/:id
Patch ==
  /\ Accept
  /\ \E id \in Ids \cup {UnknownId}, body \in PatchBodies :
       IF NeedsValidation(body) /\ body.extractedData \notin ValidData
       THEN /\ response' = Responded("patch", id, 500, "Update failed")
            /\ UNCHANGED <<documents, clock>>
       ELSE IF id \notin DOMAIN documents
       THEN /\ response' = Responded("patch", id, 404, "Document not found")
            /\ UNCHANGED <<documents, clock>>
       ELSE \E now \in Readings(body.status = "processed") :
              /\ documents' = StoreUpdate(documents, id, body, now)
              /\ response' = Responded("patch", id, 200, "none")
              /\ clock' = now
  /\ UNCHANGED <<nextId, settings, inflight, mem, call, norm, restVars>>

\* DELETE /api/documents/:id
Delete ==
  /\ Accept
  /\ \E id \in Ids \cup {UnknownId} :
       IF id \in DOMAIN documents
       THEN /\ documents' = [d \in DOMAIN documents \ {id} |-> documents[d]]
            /\ response' = Responded("delete", id, 200, "none")
       ELSE /\ response' = Responded("delete", id, 404, "Document not found")
            /\ UNCHANGED documents
  /\ UNCHANGED <<nextId, settings, clock, inflight, mem, call, norm, restVars>>

\* POST /api/settings with a body insertSettingsSchema accepts
PostSettingsWith(body) ==
  /\ Accept
  /\ settings' = updateSettings(settings, body)
  /\ response' = Responded("settings", 0, 200, SafeBody(settings'))
  /\ UNCHANGED <<documents, nextId, clock, inflight, mem, call, norm, probe, table, viewVars>>

PostSettings ==
  /\ \E body \in SettingsPayloads : PostSettingsWith(body)
  /\ UNCHANGED request

Next ==
  \/ UploadNoFile
  \/ Upload
  \/ ProcessNotFound
  \/ ProcessNoKey
  \/ ProcessBegin
  \/ ProcessSucceed
  \/ ProcessFail
  \/ Patch
  \/ Delete
  \/ PostSettings

Spec == Init /\ [][Next]_vars

(***************************************************************************)
(* SettingsSpec: the settings endpoints                                    *)
(***************************************************************************)
\* GET /api/settings
GetSettings ==
  /\ Accept
  /\ response' = Responded("getSettings", 0, 200, SafeBody(settings))
  /\ UNCHANGED <<documents, nextId, settings, clock, inflight, mem, call, norm, restVars>>

\* POST /api/settings, the body kept for reference
PostSettingsValid ==
  \E body \in SettingsPayloads :
    /\ PostSettingsWith(body)
    /\ request' = body

\* POST /api/settings with a body insertSettingsSchema.parse rejects
PostSettingsInvalid ==
  /\ Accept
  /\ request' = InvalidSettings
  /\ response' = Responded("settings", 0, 500,
                    [message |-> "Failed to update settings", error |-> "ZodError"])
  /\ UNCHANGED <<documents, nextId, settings, clock, inflight, mem, call, norm, probe, table, viewVars>>

\* POST /api/settings/test with no key stored
TestNoKey ==
  /\ Accept
  /\ KeyMissing(settings)
  /\ response' = Responded("test", 0, 400, [message |-> "API key not configured"])
  /\ UNCHANGED <<documents, nextId, settings, clock, inflight, mem, call, norm, restVars>>

\* POST /api/settings/test up to the request to the AI service: the handler
\* holds the settings it read
TestBegin ==
  /\ Accept
  /\ ~KeyMissing(settings)
  /\ \E p \in Probes :
       /\ probe[p].pc = "idle"
       /\ \A q \in Probes : q < p => probe[q].pc # "idle"
       /\ probe' = [probe EXCEPT ![p] = [pc |-> "testing", snapshot |-> settings]]
  /\ response' = Responded("test", 0, 0, [message |-> "pending"])
  /\ UNCHANGED <<documents, nextId, settings, clock, inflight, mem, call, norm, request, table, viewVars>>

\* { ...settings, connectionStatus: isConnected ? "connected" : "failed" }
TestPayload(snapshot, isConnected) ==
  [apiKey |-> snapshot.apiKey, encryptedApiKey |-> snapshot.encryptedApiKey,
   connectionStatus |-> IF isConnected THEN "connected" ELSE "failed"]

\* mistralService.testConnection returned: the result is passed to
\* updateSettings and reported
TestFinish ==
  /\ \E p \in Probes, isConnected \in BOOLEAN :
       /\ probe[p].pc = "testing"
       /\ settings' = updateSettings(settings, TestPayload(probe[p].snapshot, isConnected))
       /\ response' = Responded("test", 0, 200, [connected |-> isConnected])
       /\ probe' = [probe EXCEPT ![p] = IdleProbe]
  /\ UNCHANGED <<documents, nextId, clock, inflight, served, mem, call, norm, request, table, viewVars>>

NextSettings ==
  \/ GetSettings
  \/ PostSettingsValid
  \/ PostSettingsInvalid
  \/ TestNoKey
  \/ TestBegin
  \/ TestFinish

SettingsSpec == Init /\ [][NextSettings]_vars

\* s and t differ at most in the values of the keys they hold
SameButKeyValues(s, t) ==
  /\ s.id = t.id
  /\ s.connectionStatus = t.connectionStatus
  /\ (s.apiKey = NoKey) <=> (t.apiKey = NoKey)
  /\ (s.encryptedApiKey = NoKey) <=> (t.encryptedApiKey = NoKey)

\* every settings record over two values per key form
SettingsRecords ==
  [id : {0, 1}, apiKey : {NoKey, "k", "k2"}, encryptedApiKey : {NoKey, "e", "e2"},
   connectionStatus : {"none", "testing", "connected", "failed"}]

\* C14: the body of every GET /settings and POST /settings response has no
\* apiKey and no encryptedApiKey member and no member holding a stored key;
\* a successful one has hasApiKey true exactly when a plain or an encrypted
\* key is stored, and is the body any settings state differing only in the
\* key values would produce.
C14_SettingsBodyHidesKeys ==
  response.op \in {"getSettings", "settings"}
  => /\ DOMAIN response.body \cap {"apiKey", "encryptedApiKey"} = {}
     /\ "connectionStatus" \in DOMAIN response.body
        => response.body.connectionStatus \notin ({settings.apiKey, settings.encryptedApiKey} \ {NoKey})
     /\ response.code = 200
        => /\ response.body.hasApiKey
                <=> (settings.apiKey # NoKey \/ settings.encryptedApiKey # NoKey)
           /\ \A t \in SettingsRecords :
                SameButKeyValues(settings, t) => SafeBody(t) = response.body

\* C14 witness: a settings response sent while both key forms are stored.
C14_Witness ==
  /\ response.op \in {"getSettings", "settings"}
  /\ response.code = 200
  /\ settings.apiKey # NoKey
  /\ settings.encryptedApiKey # NoKey
  /\ response.body.hasApiKey

\* C15: after POST /settings/test has completed with a key configured, the
\* stored connectionStatus is connected if the connectivity check succeeded
\* and failed if it did not, and GET /settings would report that value.
C15_TestSetsConnectionStatus ==
  (response.op = "test" /\ response.code = 200)
  => /\ settings.connectionStatus =
          (IF response.body.connected THEN "connected" ELSE "failed")
     /\ SafeBody(settings).connectionStatus = settings.connectionStatus

\* C16: there is one settings record, whose id never changes once it exists;
\* every successful POST /settings leaves each key form as the payload gives
\* it, null when the payload lacks it, and connectionStatus testing.
C16_SettingsReplaced ==
  [][/\ settings # NoSettings
        => (settings' # NoSettings /\ settings'.id = settings.id)
     /\ (served' # served /\ response'.op = "settings" /\ response'.code = 200)
        => /\ settings'.apiKey = (IF request'.apiKey = AbsentS THEN NoKey ELSE request'.apiKey)
           /\ settings'.encryptedApiKey =
                (IF request'.encryptedApiKey = AbsentS THEN NoKey ELSE request'.encryptedApiKey)
           /\ settings'.connectionStatus = "testing"]_vars

\* C16 witness: a POST /settings without apiKey replaced a record that held
\* one, and the plain key is gone.
C16_Witness ==
  /\ response.op = "settings" /\ response.code = 200
  /\ request.apiKey = AbsentS
  /\ request.encryptedApiKey = "e"
  /\ settings.apiKey = NoKey
  /\ settings.encryptedApiKey = "e"
  /\ served > 1

\* a POST /api/settings/test request is answered in this step
TestAnswered(code) ==
  /\ response' # response \/ served' # served \/ probe' # probe
  /\ response'.op = "test" /\ response'.code = code

\* C30: a connection test never changes the stored key material: the step
\* that completes a POST /settings/test leaves the stored apiKey and
\* encryptedApiKey as they were, and with no key configured the request is
\* rejected with 400 and the settings are unchanged.
C30_TestKeepsKeys ==
  [][/\ TestAnswered(200)
        => /\ settings'.apiKey = settings.apiKey
           /\ settings'.encryptedApiKey = settings.encryptedApiKey
     /\ (KeyMissing(settings) /\ response'.op = "test" /\ served' # served)
        => (response'.code = 400 /\ settings' = settings)]_vars

(***************************************************************************)
(* TableSpec: editing a table field in the review step                     *)
(***************************************************************************)
\* what a cell may hold
Cells == {"", "x"}
\* columns of the edited table
Columns == 2

\* a row of the table; kind tells the header row from the data rows and is
\* not part of the value the component holds
Row(kind, cells) == [kind |-> kind, cells |-> cells]
RowsOf(kind) == {Row(kind, c) : c \in [1..Columns -> Cells]}

\* table.filter((_, index) => index !== rowIndex), rowIndex counted from 0
WithoutRow(value, rowIndex) ==
  LET keep == {i \in 1..Len(value) : i - 1 # rowIndex}
  IN [k \in 1..Cardinality(keep) |->
        value[CHOOSE i \in keep : Cardinality({j \in keep : j < i}) = k - 1]]

\* a removeTableRow that protects the header row only
removeTableRowHeaderOnly(value, rowIndex) ==
  IF rowIndex = 0 THEN value ELSE WithoutRow(value, rowIndex)

\* if (rowIndex === 0 || table.length <= 2) return field; else filter
removeTableRow(value, rowIndex) ==
  IF rowIndex = 0 \/ Len(value) <= 2 THEN value ELSE WithoutRow(value, rowIndex)

\* [...table, new Array(table[0]?.length || 2).fill("")]
addTableRow(value) ==
  LET columnCount == IF Len(value) > 0 /\ Len(value[1].cells) > 0
                     THEN Len(value[1].cells) ELSE 2
  IN Append(value, Row("data", [c \in 1..columnCount |-> ""]))

\* newTable[rowIndex][colIndex] = value, both counted from 0
handleTableCellChange(value, rowIndex, colIndex, cell) ==
  [value EXCEPT ![rowIndex + 1].cells[colIndex + 1] = cell]

InitTable ==
  /\ StoreIdle
  /\ call = IdleCall
  /\ norm = IdleNorm
  /\ probe = [p \in Probes |-> IdleProbe]
  /\ request = NoRequest
  /\ pipeline = IdlePipeline
  /\ pdf = NoPdf
  /\ \E header \in RowsOf("header"), first \in RowsOf("data") :
       table = [value |-> <<header, first>>, op |-> "none", rowIndex |-> 0]

\* the add-row button
AddRow ==
  /\ Len(table.value) < MaxRows
  /\ table' = [value |-> addTableRow(table.value), op |-> "addTableRow", rowIndex |-> 0]
  /\ UNCHANGED <<storeVars, call, norm, probe, request, viewVars>>

\* removeTableRow called with any row index, the header's included
RemoveRow ==
  /\ \E rowIndex \in 0..MaxRows :
       table' = [value |-> removeTableRow(table.value, rowIndex),
                 op |-> "removeTableRow", rowIndex |-> rowIndex]
  /\ UNCHANGED <<storeVars, call, norm, probe, request, viewVars>>

\* a cell of the header row or of a data row is edited
ChangeCell ==
  /\ \E rowIndex \in 0..(Len(table.value) - 1), colIndex \in 0..(Columns - 1), cell \in Cells :
       table' = [value |-> handleTableCellChange(table.value, rowIndex, colIndex, cell),
                 op |-> "handleTableCellChange", rowIndex |-> rowIndex]
  /\ UNCHANGED <<storeVars, call, norm, probe, request, viewVars>>

NextTable ==
  \/ AddRow
  \/ RemoveRow
  \/ ChangeCell

TableSpec == InitTable /\ [][NextTable]_vars

\* C17: for a table that starts with a header row and at least one data
\* row, after any sequence of addTableRow, removeTableRow and
\* handleTableCellChange the header row is still row 0 and at least one data
\* row remains; removeTableRow with row index 0, and removeTableRow on a
\* table with exactly one data row, leave the table unchanged.
C17_TableKeepsHeaderAndRow ==
  /\ [](/\ Len(table.value) >= 2
        /\ table.value[1].kind = "header"
        /\ \A i \in 2..Len(table.value) : table.value[i].kind = "data")
  /\ [][(table'.op = "removeTableRow"
          /\ (table'.rowIndex = 0 \/ Len(table.value) = 2))
         => table'.value = table.value]_vars

\* C17 witness: removeTableRow was called with row index 0 on a table with
\* two data rows, the second of them edited, and all three rows are there.
C17_Witness ==
  /\ table.op = "removeTableRow"
  /\ table.rowIndex = 0
  /\ Len(table.value) = 3
  /\ table.value[3].cells[1] = "x"

(***************************************************************************)
(* GenSpec: POST /api/documents/:id/generate on a stored document          *)
(***************************************************************************)
\* a field without layout.order
NoOrder == 0 - 1

\* the fields of stored extractedData as the generator reads them: section
\* and layout.order, the id telling the fields apart
GenFields == [section : {"Product", "Results"}, order : {NoOrder} \cup 0..2]
GenFieldLists ==
  UNION {{[i \in 1..n |-> [id |-> FieldId(i), section |-> fs[i].section, order |-> fs[i].order]]
            : fs \in [1..n -> GenFields]} : n \in 0..MaxFields}

\* extractedData of a stored document: null, or an object whose fields
\* member is an array, absent, or a truthy value that is not an array
GenData ==
  {[kind |-> "null", fieldsKind |-> "absent", fields |-> <<>>]}
  \cup {[kind |-> "object", fieldsKind |-> "array", fields |-> fs] : fs \in GenFieldLists}
  \cup {[kind |-> "object", fieldsKind |-> k, fields |-> <<>>] : k \in {"absent", "other"}}

\* data.fields?.reduce(...): a fresh array per section, in order of first
\* occurrence, each field pushed to the array of its section
RECURSIVE ReduceBySection(_, _)
ReduceBySection(fields, acc) ==
  IF fields = <<>> THEN acc
  ELSE LET f == Head(fields)
           at == {k \in 1..Len(acc) : acc[k].section = f.section}
       IN ReduceBySection(Tail(fields),
            IF at = {}
            THEN Append(acc, [section |-> f.section, fields |-> <<f>>])
            ELSE [k \in 1..Len(acc) |->
                    IF k \in at THEN [acc[k] EXCEPT !.fields = Append(@, f)] ELSE acc[k]])

\* a.layout?.order || 0
orderOf(f) == IF f.order = NoOrder THEN 0 ELSE f.order

\* a sort that places a field before the earlier fields of the same order
RECURSIVE SortByOrderReversingTies(_)
SortByOrderReversingTies(fields) ==
  IF fields = <<>> THEN <<>>
  ELSE LET h == Head(fields)
           rest == SortByOrderReversingTies(Tail(fields))
       IN SelectSeq(rest, LAMBDA f : orderOf(f) <= orderOf(h)) \o <<h>>
          \o SelectSeq(rest, LAMBDA f : orderOf(f) > orderOf(h))

\* sectionFields.sort((a, b) => orderA - orderB): stable, ascending order
RECURSIVE SortByOrder(_)
SortByOrder(fields) ==
  IF fields = <<>> THEN <<>>
  ELSE LET h == Head(fields)
           rest == SortByOrder(Tail(fields))
       IN SelectSeq(rest, LAMBDA f : orderOf(f) < orderOf(h)) \o <<h>>
          \o SelectSeq(rest, LAMBDA f : orderOf(f) >= orderOf(h))

\* ReviewStep: sortedFields is formData.fields sorted in place, groupedFields
\* its reduce by section; the form lists the groups
reviewFields(data) == ReduceBySection(SortByOrder(data.fields), <<>>)

\* a generator that sorts data.fields itself before grouping
generateDocumentSortingStored(data) ==
  [fields |-> SortByOrder(data.fields),
   rendered |-> ReduceBySection(SortByOrder(data.fields), <<>>)]

\* generatePDF / generateDOCX: the arrays after the call. data.fields is
\* read by reduce and never written; sort reorders, in place, the arrays
\* reduce created, which are what is rendered
generateDocument(data) ==
  LET groupedFields == ReduceBySection(data.fields, <<>>)
  IN [fields |-> data.fields,
      rendered |-> [i \in 1..Len(groupedFields) |->
                      [groupedFields[i] EXCEPT !.fields = SortByOrder(@)]]]

\* one stored document, in any status
InitGen ==
  /\ nextId = 2
  /\ settings = NoSettings
  /\ clock = 0
  /\ inflight = [s \in Slots |-> IdleRequest]
  /\ served = 0
  /\ response = NoResponse
  /\ mem = IdleMem
  /\ call = IdleCall
  /\ norm = IdleNorm
  /\ RestIdle
  /\ \E status \in Statuses, data \in GenData :
       documents = (1 :> [id |-> 1, status |-> status, extractedData |-> data,
                          createdAt |-> 0,
                          processedAt |-> IF status \in {"processed", "completed"} THEN 0 ELSE NoTime,
                          succeeded |-> status \in {"processed", "completed"}])

\* the generate request finds no document, or one whose extractedData is null
GenerateNotFound ==
  /\ Accept
  /\ \E id \in {1, UnknownId} :
       /\ IF id \in DOMAIN documents THEN documents[id].extractedData.kind = "null" ELSE TRUE
       /\ response' = Responded("generate", id, 404, "Document not found or not processed")
  /\ UNCHANGED <<documents, nextId, settings, clock, inflight, mem, call, norm, restVars>>

\* the document after the generator has run on it
Generated(doc) ==
  [doc EXCEPT !.extractedData.fields = generateDocument(doc.extractedData).fields]

\* generation throws: fields cannot be reduced, or the rendering library
\* fails after the fields were grouped and sorted
GenerateFails ==
  /\ Accept
  /\ \E id \in DOMAIN documents, early \in BOOLEAN :
       /\ documents[id].extractedData.kind # "null"
       /\ early <=> documents[id].extractedData.fieldsKind = "other"
       /\ documents' = IF early THEN documents
                        ELSE [documents EXCEPT ![id] = Generated(documents[id])]
       /\ response' = Responded("generate", id, 500, "Generation failed")
  /\ UNCHANGED <<nextId, settings, clock, inflight, mem, call, norm, restVars>>

\* generation succeeds and the file is sent
Generate ==
  /\ Accept
  /\ \E id \in DOMAIN documents, format \in {"pdf", "docx"} :
       /\ documents[id].extractedData.kind # "null"
       /\ documents[id].extractedData.fieldsKind # "other"
       /\ documents' = [documents EXCEPT ![id] = Generated(documents[id])]
       /\ response' = Responded("generate", id, 200,
                         [format |-> format,
                          rendered |-> generateDocument(documents[id].extractedData).rendered])
  /\ UNCHANGED <<nextId, settings, clock, inflight, mem, call, norm, restVars>>

\* the review step lists the fields of the document it was handed, a copy
\* of the stored one, for editing
Review ==
  /\ Accept
  /\ \E id \in DOMAIN documents :
       /\ documents[id].extractedData.kind # "null"
       /\ documents[id].extractedData.fieldsKind = "array"
       /\ response' = Responded("review", id, 200,
                         [format |-> "form",
                          rendered |-> reviewFields(documents[id].extractedData)])
  /\ UNCHANGED <<documents, nextId, settings, clock, inflight, mem, call, norm, restVars>>

NextGen ==
  \/ GenerateNotFound
  \/ GenerateFails
  \/ Generate
  \/ Review

GenSpec == InitGen /\ [][NextGen]_vars

\* C18: a generate request never changes the stored document: whether it
\* succeeds, fails, or is rejected with 404, status, extractedData (the
\* order of its fields included) and timestamps are after the request what
\* they were before.
C18_GenerateLeavesDocument ==
  [][(served' # served /\ response'.op = "generate") => documents' = documents]_vars

\* C18 witness: a file was generated from a document whose two fields of
\* one section are stored in descending order, rendered in ascending order,
\* and still stored in descending order.
C18_Witness ==
  /\ response.op = "generate" /\ response.code = 200
  /\ Len(documents[1].extractedData.fields) = 2
  /\ documents[1].extractedData.fields[1].order > documents[1].extractedData.fields[2].order
  /\ Len(response.body.rendered) = 1
  /\ response.body.rendered[1].fields[1].order < response.body.rendered[1].fields[2].order

\* the place of the field of the given id in a list of fields
PlaceOf(fields, id) == CHOOSE k \in 1..Len(fields) : fields[k].id = id

\* listed holds exactly the fields of the section among stored, in ascending
\* order where a missing order counts as 0, fields of equal order in the
\* order they are stored in
InLayoutOrder(listed, section, stored) ==
  LET ord(f) == IF f.order = NoOrder THEN 0 ELSE f.order
  IN /\ {listed[i] : i \in 1..Len(listed)}
          = {stored[k] : k \in {n \in 1..Len(stored) : stored[n].section = section}}
     /\ Len(listed) = Cardinality({n \in 1..Len(stored) : stored[n].section = section})
     /\ \A i, j \in 1..Len(listed) :
          i < j => \/ ord(listed[i]) < ord(listed[j])
                   \/ /\ ord(listed[i]) = ord(listed[j])
                      /\ PlaceOf(stored, listed[i].id) < PlaceOf(stored, listed[j].id)

\* C24: fields rendered into a generated document (PDF or DOCX) or listed
\* for editing appear, within each section, in ascending layout.order; a
\* field with no order is treated as order 0, and fields of equal order
\* keep the order they are stored in.
C24_FieldsInLayoutOrder ==
  (response.op \in {"generate", "review"} /\ response.code = 200)
    => LET stored == documents[response.id].extractedData.fields
           groups == response.body.rendered
       IN /\ \A g \in 1..Len(groups) :
               InLayoutOrder(groups[g].fields, groups[g].section, stored)
          /\ {groups[g].section : g \in 1..Len(groups)}
               = {stored[k].section : k \in 1..Len(stored)}

\* C24 witness: the review step listed two fields of one section, stored
\* with order 1 first and no order second, the field with no order first.
C24_Witness ==
  /\ response.op = "review" /\ response.code = 200
  /\ Len(documents[1].extractedData.fields) = 2
  /\ documents[1].extractedData.fields[1].order = 1
  /\ documents[1].extractedData.fields[2].order = NoOrder
  /\ Len(response.body.rendered) = 1
  /\ response.body.rendered[1].fields[1].order = NoOrder

(***************************************************************************)
(* WizardSpec: the five-step pipeline of the client                        *)
(***************************************************************************)
\* goToStep(step): setCurrentStep(step)
goToStep(p, step) == [p EXCEPT !.currentStep = step]

\* renderCurrentStep: the component shown for a value of currentStep
renderCurrentStep(step) ==
  CASE step = 1 -> "UploadStep"
    [] step = 2 -> "ProcessingStep"
    [] step = 3 -> "SectionSelectionStep"
    [] step = 4 -> "ReviewStep"
    [] step = 5 -> "GenerateStep"
    [] OTHER -> "UploadStep"

Shown(component) == renderCurrentStep(pipeline.currentStep) = component

\* UploadStep: the upload button, disabled while the mutation is pending
UploadClick ==
  /\ Shown("UploadStep")
  /\ ~pipeline.uploading
  /\ nextId <= MaxWizardUploads
  /\ pipeline' = [pipeline EXCEPT !.uploading = TRUE, !.lastAction = "upload"]
  /\ UNCHANGED <<documents, nextId, settings, clock, inflight, served, response, mem,
                 call, norm, probe, request, table, pdf>>

\* uploadMutation.onSuccess: setCurrentDocument(document); goToStep(2)
UploadSuccess ==
  /\ pipeline.uploading
  /\ pipeline' = goToStep([pipeline EXCEPT !.uploading = FALSE,
                                           !.currentDocument = nextId,
                                           !.status = "uploaded",
                                           !.lastAction = "upload success"], 2)
  /\ nextId' = nextId + 1
  /\ UNCHANGED <<documents, settings, clock, inflight, served, response, mem,
                 call, norm, probe, request, table, pdf>>

\* the upload request fails: the mutation has no onError, nothing is set
UploadError ==
  /\ pipeline.uploading
  /\ pipeline' = [pipeline EXCEPT !.uploading = FALSE, !.lastAction = "upload error"]
  /\ UNCHANGED <<documents, nextId, settings, clock, inflight, served, response, mem,
                 call, norm, probe, request, table, pdf>>

\* ProcessingStep: the effect (and the retry button) start the process
\* mutation for an uploaded document
ProcessStart ==
  /\ Shown("ProcessingStep")
  /\ pipeline.currentDocument # 0
  /\ pipeline.status = "uploaded"
  /\ ~pipeline.processing
  /\ pipeline' = [pipeline EXCEPT !.processing = TRUE, !.lastAction = "process"]
  /\ UNCHANGED <<documents, nextId, settings, clock, inflight, served, response, mem,
                 call, norm, probe, request, table, pdf>>

\* processMutation.onSuccess: setCurrentDocument(processedDocument); goToStep(3)
ProcessSuccess ==
  /\ pipeline.processing
  /\ pipeline' = goToStep([pipeline EXCEPT !.processing = FALSE,
                                           !.status = "processed",
                                           !.lastAction = "process success"], 3)
  /\ UNCHANGED <<documents, nextId, settings, clock, inflight, served, response, mem,
                 call, norm, probe, request, table, pdf>>

\* the process request fails: the document held is not replaced
ProcessError ==
  /\ pipeline.processing
  /\ pipeline' = [pipeline EXCEPT !.processing = FALSE, !.lastAction = "process error"]
  /\ UNCHANGED <<documents, nextId, settings, clock, inflight, served, response, mem,
                 call, norm, probe, request, table, pdf>>

\* ProcessingStep: "Continue to Review", shown when the document is processed
ContinueToReview ==
  /\ Shown("ProcessingStep")
  /\ pipeline.status = "processed"
  /\ pipeline' = goToStep([pipeline EXCEPT !.lastAction = "continue to review"], 3)
  /\ UNCHANGED <<documents, nextId, settings, clock, inflight, served, response, mem,
                 call, norm, probe, request, table, pdf>>

\* SectionSelectionStep, rendered when a document is held:
\* onSectionsSelected is goToStep(4)
SectionsSelected ==
  /\ Shown("SectionSelectionStep")
  /\ pipeline.currentDocument # 0
  /\ pipeline' = goToStep([pipeline EXCEPT !.lastAction = "sections selected"], 4)
  /\ UNCHANGED <<documents, nextId, settings, clock, inflight, served, response, mem,
                 call, norm, probe, request, table, pdf>>

\* the step handleSaveAndContinue passes to goToStep
SaveTarget == 4

\* ReviewStep.handleSaveAndContinue, its button disabled while the mutation
\* is pending: if (formData && document) the PATCH mutation is started and
\* goToStep(4) is called
handleSaveAndContinue ==
  /\ Shown("ReviewStep")
  /\ pipeline.currentDocument # 0
  /\ pipeline.status = "processed"
  /\ ~pipeline.saving
  /\ pipeline' = goToStep([pipeline EXCEPT !.saving = TRUE,
                                           !.lastAction = "save and continue"], SaveTarget)
  /\ UNCHANGED <<documents, nextId, settings, clock, inflight, served, response, mem,
                 call, norm, probe, request, table, pdf>>

\* updateMutation settles: onSuccess replaces the document held by the one
\* returned (same id; the PATCH body carries no status), an error sets nothing
SaveSettled ==
  /\ pipeline.saving
  /\ \E outcome \in {"save success", "save error"} :
       pipeline' = [pipeline EXCEPT !.saving = FALSE, !.lastAction = outcome]
  /\ UNCHANGED <<documents, nextId, settings, clock, inflight, served, response, mem,
                 call, norm, probe, request, table, pdf>>

\* the step the back button of a component leads to: "Upload Different
\* File", onBack, "Regenerate" and handleStartOver
BackTarget(component) ==
  CASE component = "ProcessingStep" -> 1
    [] component = "SectionSelectionStep" -> 2
    [] component = "ReviewStep" -> 2
    [] component = "GenerateStep" -> 1

\* the back button of the step shown; every step but the first renders it
\* only when a document is held
Back ==
  /\ ~Shown("UploadStep")
  /\ pipeline.currentDocument # 0
  /\ pipeline' = goToStep([pipeline EXCEPT !.lastAction = "back"],
                          BackTarget(renderCurrentStep(pipeline.currentStep)))
  /\ UNCHANGED <<documents, nextId, settings, clock, inflight, served, response, mem,
                 call, norm, probe, request, table, pdf>>

NextWizard ==
  \/ UploadClick
  \/ UploadSuccess
  \/ UploadError
  \/ ProcessStart
  \/ ProcessSuccess
  \/ ProcessError
  \/ ContinueToReview
  \/ SectionsSelected
  \/ handleSaveAndContinue
  \/ SaveSettled
  \/ Back

WizardSpec == Init /\ [][NextWizard]_vars

\* the forward action of each step: upload success, process success,
\* continue from section selection, save-and-continue from review
ForwardAction(step) ==
  CASE step = 1 -> "upload success"
    [] step = 2 -> "process success"
    [] step = 3 -> "sections selected"
    [] step = 4 -> "save and continue"
    [] OTHER -> "none"

\* C23: starting at step 1 and taking each step's forward action in turn,
\* the current step goes 1, 2, 3, 4, 5: the forward action of the step shown
\* leads to the next step, so that the generate step is shown in the end.
C23_ForwardActionsReachGenerate ==
  [][pipeline'.lastAction = ForwardAction(pipeline.currentStep)
       => pipeline'.currentStep = pipeline.currentStep + 1]_vars

(***************************************************************************)
(* PdfSpec: the vertical layout of generatePDF                             *)
(***************************************************************************)
\* the height of the page of new PDFDocument({ margin: 50 }), in points
PageHeight == 792
\* yPosition after doc.addPage()
PageTop == 50
\* the thresholds of the two page checks
SectionLimit == 700
FieldLimit == 750

\* if (yPosition > limit) { doc.addPage(); yPosition = 50; }
PageCheck(p, limit) ==
  IF p.yPosition > limit
  THEN [p EXCEPT !.yPosition = PageTop, !.pages = @ + 1]
  ELSE p

\* the fields a section may hold: a table with its data rows (the header
\* row apart), a heading with its level, a paragraph with the height
\* heightOfString gives its text, or a regular field
PdfFields ==
  {[type |-> "table", n |-> rows] : rows \in 0..(MaxRows - 1)}
  \cup {[type |-> "heading", n |-> level] : level \in {1, 6}}
  \cup {[type |-> "paragraph", n |-> height] : height \in {12, 120}}
  \cup {[type |-> "text", n |-> 0]}

\* Math.max(16 - level, 10)
HeadingSize(level) == IF 16 - level > 10 THEN 16 - level ELSE 10

\* the switch of lines 73-144 drawing one field at p.yPosition: a table
\* draws its title, 20 below it the header cells of height 20, and below
\* them one row of cells of height 15 per data row
DrawnField(p, field) ==
  LET y == p.yPosition
  IN CASE field.type = "table" ->
            [p EXCEPT !.lowest = y + 20 + 20 + 15 * field.n,
                      !.yPosition = y + 20 + 20 + 15 * field.n + 20]
       [] field.type = "heading" ->
            [p EXCEPT !.lowest = 0, !.yPosition = y + HeadingSize(field.n) + 10]
       [] field.type = "paragraph" ->
            [p EXCEPT !.lowest = 0, !.yPosition = y + field.n + 10]
       [] OTHER ->
            [p EXCEPT !.lowest = 0, !.yPosition = y + 15]

\* the company header and document info are drawn, yPosition = 120
InitPdf ==
  /\ StoreIdle
  /\ call = IdleCall
  /\ norm = IdleNorm
  /\ probe = [p \in Probes |-> IdleProbe]
  /\ request = NoRequest
  /\ table = NoTable
  /\ pipeline = IdlePipeline
  /\ pdf = [pc |-> "sections", yPosition |-> 120, pages |-> 1, items |-> 0,
            last |-> "company header", lowest |-> 0]

\* lines 49-57: the page check of a section and its header, 14 pt
SectionHeader ==
  /\ pdf.pc = "sections"
  /\ pdf.items < MaxPdfItems
  /\ LET p == PageCheck(pdf, SectionLimit)
     IN pdf' = [p EXCEPT !.pc = "header", !.items = @ + 1, !.last = "section header",
                         !.lowest = 0, !.yPosition = @ + 25]
  /\ UNCHANGED <<storeVars, call, norm, probe, request, table, pipeline>>

\* lines 67-145: the page check of a field and the field; a section holds
\* one field at least
DrawField ==
  /\ pdf.pc \in {"header", "fields"}
  /\ pdf.pc = "fields" => pdf.items < MaxPdfItems
  /\ \E field \in PdfFields :
       pdf' = [DrawnField(PageCheck(pdf, FieldLimit), field)
                 EXCEPT !.pc = "fields", !.items = @ + 1, !.last = field.type]
  /\ UNCHANGED <<storeVars, call, norm, probe, request, table, pipeline>>

\* line 147: the gap after the fields of a section
EndSection ==
  /\ pdf.pc = "fields"
  /\ pdf' = [pdf EXCEPT !.pc = "sections", !.yPosition = @ + 20]
  /\ UNCHANGED <<storeVars, call, norm, probe, request, table, pipeline>>

\* lines 150-156: the three footer lines, 8 pt, at yPosition + 20, + 35, + 50
Footer ==
  /\ pdf.pc = "sections"
  /\ pdf' = [pdf EXCEPT !.pc = "done", !.last = "footer", !.lowest = 0]
  /\ UNCHANGED <<storeVars, call, norm, probe, request, table, pipeline>>

NextPdf ==
  \/ SectionHeader
  \/ DrawField
  \/ EndSection
  \/ Footer

PdfSpec == InitPdf /\ [][NextPdf]_vars

\* C28: PDF generation draws nothing below the bottom of a page: a new
\* page is begun whenever the next item would not fit on the current one,
\* so the lowest cell border of every table drawn lies within the page.
C28_NothingBelowPageBottom == pdf.lowest <= PageHeight

(***************************************************************************)
(* NormSpec: the normalization steps applied to raw JSON                   *)
(***************************************************************************)
InitNorm ==
  /\ StoreIdle
  /\ RestIdle
  /\ call = IdleCall
  /\ \E d \in RawData : norm = [pc |-> "raw", input |-> d, data |-> d, once |-> d]

\* lines 346-353
NormAssignIds ==
  /\ norm.pc = "raw"
  /\ norm' = IF ForEachThrows(norm.data)
             THEN [norm EXCEPT !.pc = "threw"]
             ELSE [norm EXCEPT !.pc = "ids", !.data = WithIds(norm.data)]
  /\ UNCHANGED <<storeVars, call, restVars>>

\* lines 355-387
NormSections ==
  /\ norm.pc = "ids"
  /\ norm' = [norm EXCEPT !.pc = "normalized",
                          !.data = WithSections(norm.data),
                          !.once = WithSections(norm.data)]
  /\ UNCHANGED <<storeVars, call, restVars>>

\* both steps applied to data that is already normalized
NormAgain ==
  /\ norm.pc = "normalized"
  /\ norm' = [norm EXCEPT !.pc = "renormalized", !.data = Normalize(norm.data)]
  /\ UNCHANGED <<storeVars, call, restVars>>

NextNorm ==
  \/ NormAssignIds
  \/ NormSections
  \/ NormAgain

NormSpec == InitNorm /\ [][NextNorm]_vars

(***************************************************************************)
(* ExtractSpec: one call of MistralService.extractStructuredData           *)
(***************************************************************************)
\* for (let attempt = 1; attempt <= 4; attempt++)
MaxRetries == 4
\* Math.min(1000 * Math.pow(2, attempt), 30000)
BaseDelay == 1000
DelayCap == 30000

Min(a, b) == IF a < b THEN a ELSE b

\* a backoff whose first delay is the base delay
WaitTimeFromBase(attempt) == Min(BaseDelay * 2 ^ (attempt - 1), DelayCap)

\* waitTime = Math.min(1000 * Math.pow(2, attempt), 30000)
WaitTime(attempt) == Min(BaseDelay * 2 ^ attempt, DelayCap)

\* what a fetch of the chat-completion endpoint may end in: 429, another
\* failing status, a rejected fetch (network), a 2xx body that cannot be read
\* (no JSON body, no choices), a 2xx without content, with content holding
\* no {...}, with a {...} that JSON.parse rejects, or with a JSON object
Replies ==
  {[kind |-> k, data |-> EmptyData] :
      k \in {"429", "error", "network", "malformed", "empty", "prose", "badjson"}}
  \cup {[kind |-> "json", data |-> d] : d \in RawData}

\* the call after one more fetch ended in r; a JSON object whose fields
\* cannot be iterated is told apart
Fetched(c, r) ==
  [c EXCEPT !.requests = @ + 1,
            !.throttled = IF r.kind = "429" THEN @ + 1 ELSE @,
            !.last = IF r.kind = "json" /\ ForEachThrows(r.data)
                     THEN "json, fields not a list" ELSE r.kind]

Failed(c, message) ==
  [c EXCEPT !.pc = "done", !.result = [status |-> "error", error |-> message, data |-> EmptyData]]

Returned(c, d) ==
  [c EXCEPT !.pc = "done", !.result = [status |-> "ok", error |-> "none", data |-> d]]

\* lines 247-265 and 325-395: the first request and its response
ExtractFirst ==
  /\ call.pc = "start"
  /\ \E r \in Replies :
       LET c == Fetched(call, r)
       IN call' =
            CASE r.kind = "429" -> [c EXCEPT !.pc = "backoff", !.attempt = 1]
              [] r.kind = "error" -> Failed(c, "Mistral API error")
              [] r.kind = "network" -> Failed(c, "fetch failed")
              [] r.kind = "malformed" -> Failed(c, "TypeError")
              [] r.kind = "empty" -> Failed(c, "No content returned from Mistral API")
              [] r.kind = "prose" -> Failed(c, "No valid JSON found in response")
              [] r.kind = "badjson" -> Failed(c, "SyntaxError")
              [] OTHER -> IF ForEachThrows(r.data) THEN Failed(c, "TypeError")
                          ELSE Returned(c, Normalize(r.data))
  /\ UNCHANGED <<storeVars, norm, restVars>>

\* lines 272-274: the delay before retry number attempt
ExtractWait ==
  /\ call.pc = "backoff"
  /\ call' = [call EXCEPT !.pc = "retry", !.waitTime = WaitTime(call.attempt),
                          !.waited = @ + WaitTime(call.attempt)]
  /\ UNCHANGED <<storeVars, norm, restVars>>

\* a loop that gives up after the first retry
NextAttemptGivingUp(c) == Failed(c, "Rate limited and all retries failed")

\* a loop that makes one retry more than the bound
NextAttemptOneMore(c) ==
  IF c.attempt <= MaxRetries
  THEN [c EXCEPT !.pc = "backoff", !.attempt = @ + 1]
  ELSE Failed(c, "Rate limited and all retries failed")

\* the loop goes on to the next attempt, or ends after the last one
NextAttempt(c) ==
  IF c.attempt < MaxRetries
  THEN [c EXCEPT !.pc = "backoff", !.attempt = @ + 1]
  ELSE Failed(c, "Rate limited and all retries failed")

\* lines 276-322: a retry request and its response
ExtractRetry ==
  /\ call.pc = "retry"
  /\ \E r \in Replies :
       LET c == Fetched(call, r)
       IN call' =
            CASE r.kind = "json" -> IF ForEachThrows(r.data) THEN Failed(c, "TypeError")
                                    ELSE Returned(c, WithIds(r.data))
              [] r.kind = "network" -> Failed(c, "fetch failed")
              [] r.kind = "malformed" -> Failed(c, "TypeError")
              [] r.kind = "badjson" -> Failed(c, "SyntaxError")
              [] r.kind = "error" -> Failed(c, "Rate limited and all retries failed")
              [] OTHER -> NextAttempt(c)
  /\ UNCHANGED <<storeVars, norm, restVars>>

InitExtract ==
  /\ StoreIdle
  /\ RestIdle
  /\ call = [IdleCall EXCEPT !.pc = "start"]
  /\ norm = IdleNorm

NextExtract ==
  \/ ExtractFirst
  \/ ExtractWait
  \/ ExtractRetry

ExtractSpec == InitExtract /\ [][NextExtract]_vars

\* C7: every result returned by a successful extractStructuredData call has
\* a non-empty detectedSections array, whether the successful response was
\* the first one or a retry response received after HTTP 429.
C7_SectionsNeverEmpty ==
  (call.pc = "done" /\ call.result.status = "ok")
  => /\ call.result.data.sectionsKind = "array"
     /\ Len(call.result.data.detectedSections) > 0

Remaining(c) ==
  IF c.pc = "done" THEN 0
  ELSE 2 * (5 - c.requests) + (IF c.pc = "backoff" THEN 2 ELSE 1)

\* C12: the call sends at most 5 requests whatever the endpoint answers; it
\* always ends, every wait and every response lowering the number of steps
\* it may still take; and when every response is 429 it ends after the fifth
\* request with the rate-limit-exhausted error.
C12_RetryLoopTerminates ==
  /\ [](call.requests <= 5 /\ Remaining(call) >= 0)
  /\ [][Remaining(call') < Remaining(call)]_vars
  /\ []((call.pc = "done" /\ call.throttled = call.requests)
        => /\ call.requests = 5
           /\ call.result.status = "error"
           /\ call.result.error = "Rate limited and all retries failed")

\* C12 witness: five requests, all answered 429, and the call has failed.
C12_Witness ==
  /\ call.pc = "done"
  /\ call.requests = 5
  /\ call.throttled = 5
  /\ call.result.error = "Rate limited and all retries failed"

\* C26: the delay before retry n is min(1000 * 2^n, 30000) milliseconds:
\* 2000, 4000, 8000 and 16000 for retries 1 to 4, each double the one
\* before, none above the 30000 cap; the time one call waits in total never
\* exceeds 30000.
C26_BackoffDelays ==
  /\ [](call.waited <= 30000 /\ call.waitTime <= 30000)
  /\ [][(call.pc = "backoff" /\ call'.pc = "retry")
         => /\ call'.waitTime = CASE call.attempt = 1 -> 2000
                                  [] call.attempt = 2 -> 4000
                                  [] call.attempt = 3 -> 8000
                                  [] call.attempt = 4 -> 16000
            /\ call'.waited = call.waited + call'.waitTime
            /\ call.attempt > 1 => call'.waitTime = 2 * call.waitTime]_vars

\* C26 witness: the call has waited before its fourth retry, 16000 then and
\* 30000 in all.
C26_Witness ==
  /\ call.pc = "retry"
  /\ call.attempt = 4
  /\ call.waitTime = 16000
  /\ call.waited = 30000

\* C27: a 2xx response whose content holds no JSON object ends the call with
\* the no-JSON-found error, and no further request is sent, for the first
\* request and for every retry.
C27_NoJsonFails ==
  /\ [](call.last = "prose"
         => call.pc = "done" /\ call.result.error = "No valid JSON found in response")
  /\ [][call.last = "prose" => call'.requests = call.requests]_vars

\* C13: a retry answered with a failing status other than 429 ends the call
\* at once, and the call fails with the API error of that response, not with
\* the rate-limit-exhausted error.
C13_RetryErrorPropagates ==
  (call.requests > 1 /\ call.last = "error")
  => /\ call.pc = "done"
     /\ call.result.status = "error"
     /\ call.result.error = "Mistral API error"
     /\ call.result.error # "Rate limited and all retries failed"

(***************************************************************************)
(* MemStorage called directly                                              *)
(***************************************************************************)
\* the documents a caller may pass to createDocument
Inserts ==
  [id : {AbsentId},
   status : Statuses \cup {AbsentS},
   extractedData : {"d1", AbsentS},
   createdAt : {AbsentT},
   processedAt : {AbsentT}]

\* a direct call is made
AcceptCall == served < MaxCalls /\ served' = served + 1

\* storage.createDocument(insert)
MemCreate ==
  /\ AcceptCall
  /\ nextId <= MaxUploads
  /\ \E insert \in Inserts, now \in Readings(TRUE) :
       /\ documents' = documents @@ (nextId :> createDocument(insert, nextId, now))
       /\ mem' = [op |-> "createDocument", id |-> nextId, arg |-> insert]
       /\ clock' = now
  /\ nextId' = nextId + 1
  /\ UNCHANGED <<settings, inflight, response, call, norm, restVars>>

\* storage.updateDocument(id, updates)
MemUpdate ==
  /\ AcceptCall
  /\ \E id \in Ids \cup {UnknownId}, updates \in Updates :
       \E now \in Readings(id \in DOMAIN documents /\ updates.status = "processed") :
         /\ documents' = StoreUpdate(documents, id, updates, now)
         /\ mem' = [op |-> "updateDocument", id |-> id, arg |-> updates]
         /\ clock' = now
  /\ UNCHANGED <<nextId, settings, inflight, response, call, norm, restVars>>

\* storage.deleteDocument(id)
MemDelete ==
  /\ AcceptCall
  /\ \E id \in Ids \cup {UnknownId} :
       /\ documents' = [d \in DOMAIN documents \ {id} |-> documents[d]]
       /\ mem' = [op |-> "deleteDocument", id |-> id, arg |-> IdleMem.arg]
  /\ UNCHANGED <<nextId, settings, clock, inflight, response, call, norm, restVars>>

NextMem ==
  \/ MemCreate
  \/ MemUpdate
  \/ MemDelete

MemSpec == Init /\ [][NextMem]_vars

(***************************************************************************)
(* Properties of the document store                                        *)
(***************************************************************************)
Stored(id) == id \in DOMAIN documents

\* the status changes of section 4.4
AllowedTransitions ==
  { <<"uploaded", "processing">>, <<"processing", "processed">>,
    <<"processing", "error">>, <<"processed", "completed">>,
    <<"error", "processing">> }

\* C1: over any sequence of upload, process, PATCH and delete requests every
\* change of a stored document's status is one of uploaded->processing,
\* processing->processed, processing->error, processed->completed,
\* error->processing.
C1_StatusTransitions ==
  [][\A id \in DOMAIN documents \cap DOMAIN documents' :
        documents'[id].status # documents[id].status
        => <<documents[id].status, documents'[id].status>> \in AllowedTransitions]_vars

\* a step of a process call: its start (code 0) or its response
ProcessStep(id, codes) ==
  /\ inflight' # inflight
  /\ response'.op = "process"
  /\ response'.id = id
  /\ response'.code \in codes

\* C2: a process call that fails in text extraction, AI call, JSON parsing or
\* schema validation leaves the document in status error, and neither its
\* start nor its catch block changes the stored extractedData: the data is
\* what it was before the call and nothing of the failed call is persisted.
C2_FailedProcessKeepsData ==
  [][\A id \in DOMAIN documents \cap DOMAIN documents' :
        /\ ProcessStep(id, {0, 500})
           => documents'[id].extractedData = documents[id].extractedData
        /\ ProcessStep(id, {500})
           => /\ response'.body \in FailureCauses
              /\ documents'[id].status = "error"]_vars

\* C2 witness: a process call failed on a document that held data of an
\* earlier successful call, and the data is still there.
C2_Witness ==
  /\ response.op = "process" /\ response.code = 500
  /\ Stored(response.id)
  /\ documents[response.id].status = "error"
  /\ documents[response.id].succeeded
  /\ documents[response.id].extractedData \in ValidData

\* C3: every process call on an existing document that does not succeed,
\* the call rejected for a missing API key included, leaves the document in
\* status error; once it has responded and no process call is in flight the
\* document is not in status processing.
C3_UnsuccessfulProcessLeavesError ==
  (response.op = "process" /\ response.code \in {400, 500} /\ Stored(response.id))
  => /\ documents[response.id].status = "error"
     /\ (\A s \in Slots : inflight[s].pc = "idle")
        => documents[response.id].status # "processing"

\* C4: a document created by upload has status uploaded, null extractedData
\* and null processedAt; after a successful process call its status is
\* processed, extractedData is the validated result and processedAt is
\* non-null and not earlier than createdAt.
C4_UploadThenProcess ==
  /\ (response.op = "upload" /\ response.code # 400 /\ Stored(response.id))
     => /\ documents[response.id].status = "uploaded"
        /\ documents[response.id].extractedData = NullData
        /\ documents[response.id].processedAt = NoTime
  /\ (response.op = "process" /\ response.code = 200 /\ Stored(response.id))
     => /\ documents[response.id].status = "processed"
        /\ documents[response.id].extractedData = response.body
        /\ documents[response.id].processedAt # NoTime
        /\ documents[response.id].processedAt >= documents[response.id].createdAt

\* C5: createDocument sets processedAt non-null exactly when the inserted
\* status is processed; updateDocument replaces processedAt by the current
\* time exactly when the payload's status is processed, and otherwise leaves
\* it unchanged, whatever processedAt the payload carries.
C5_ProcessedAtIffProcessed ==
  [][(served' # served /\ mem'.id \in DOMAIN documents')
     => /\ mem'.op = "createDocument"
           => /\ (documents'[mem'.id].processedAt # NoTime) <=> (mem'.arg.status = "processed")
              /\ documents'[mem'.id].processedAt \in {NoTime, clock'}
        /\ mem'.op = "updateDocument"
           => documents'[mem'.id].processedAt =
                IF mem'.arg.status = "processed" THEN clock'
                ELSE documents[mem'.id].processedAt]_vars

\* C5 witness: an update whose payload carries a processedAt but a status
\* other than processed was applied to a document that had been processed
\* earlier, and the stored processedAt is still the earlier time.
C5_Witness ==
  /\ mem.op = "updateDocument"
  /\ Stored(mem.id)
  /\ mem.arg.processedAt # AbsentT
  /\ mem.arg.status = "completed"
  /\ documents[mem.id].processedAt = 1
  /\ clock = 1

\* C6: a document in status processed has non-null extractedData, and a
\* document in status error that never had a successful process call has
\* null extractedData.
C6_DataMatchesStatus ==
  \A id \in DOMAIN documents :
    /\ documents[id].status = "processed" => documents[id].extractedData # NullData
    /\ (documents[id].status = "error" /\ ~documents[id].succeeded)
       => documents[id].extractedData = NullData

\* C19: PATCH persists an extractedData value only after it has passed
\* schema validation, so every stored extractedData is null or schema-valid;
\* a PATCH that fails leaves the store as it was.
C19_PatchStoresValidatedData ==
  /\ [](\A id \in DOMAIN documents : documents[id].extractedData \in ValidData \cup {NullData})
  /\ [][(served' # served /\ response'.op = "patch" /\ response'.code = 500)
         => documents' = documents]_vars

\* C21: completed is terminal: once a document's status is completed, no
\* later process or PATCH request changes its status.
C21_CompletedIsTerminal ==
  [][\A id \in DOMAIN documents \cap DOMAIN documents' :
        documents[id].status = "completed" => documents'[id].status = "completed"]_vars

\* C22: a stored document's id and createdAt never change after creation,
\* whatever a process or PATCH request carries, and every document is stored
\* under a key equal to its id field, so that no two share an id.
C22_IdAndCreatedAtImmutable ==
  /\ [](\A id \in DOMAIN documents : documents[id].id = id)
  /\ [][\A id \in DOMAIN documents \cap DOMAIN documents' :
          /\ documents'[id].id = documents[id].id
          /\ documents'[id].createdAt = documents[id].createdAt]_vars

\* a process call for the document finishes in this step with the HTTP status
ProcessFinishes(id, code) ==
  /\ \E s \in Slots : inflight[s].pc = "extracting" /\ inflight[s].id = id
                       /\ inflight'[s].pc = "idle"
  /\ response'.op = "process" /\ response'.id = id /\ response'.code = code

\* C25: when process calls for the same document run concurrently, each
\* write replaces what is stored, so the document ends in the state written
\* by the call that finishes last: a call that starts sets processing, one
\* that succeeds sets processed and its own extractedData, one that fails
\* sets error and leaves the extractedData of the last successful call (or
\* the prior value), whatever the other calls did before.
C25_LastWriteWins ==
  [][\A id \in DOMAIN documents \cap DOMAIN documents' :
       /\ ProcessFinishes(id, 200)
            => /\ documents'[id].status = "processed"
               /\ documents'[id].extractedData = response'.body
       /\ ProcessFinishes(id, 500)
            => /\ documents'[id].status = "error"
               /\ documents'[id].extractedData = documents[id].extractedData
       /\ (response'.op = "process" /\ response'.id = id /\ response'.code = 0)
            => /\ documents'[id].status = "processing"
               /\ documents'[id].extractedData = documents[id].extractedData]_vars

\* C25 witness: of two process calls in flight for the same document one
\* has failed while the other is still awaiting the AI service: the status
\* is error, no longer the processing the other call wrote when it started.
C25_Witness ==
  /\ response.op = "process" /\ response.code = 500
  /\ response.id \in DOMAIN documents
  /\ documents[response.id].status = "error"
  /\ \E s \in Slots : inflight[s].pc = "extracting" /\ inflight[s].id = response.id

\* an id that was given to a document no longer stored
Deleted(id) == id < nextId /\ id \notin DOMAIN documents

\* C20: a deleted document stays deleted: no process or PATCH step, in
\* flight at the time of the delete or started later, stores a record under
\* its id again, only an upload adds a record and under a fresh id; as long
\* as it is deleted the store lookups behind GET /documents/{id} and GET
\* /documents do not return it, and a second DELETE answers 404.
C20_DeletedStaysDeleted ==
  [][/\ \A id \in Ids :
          Deleted(id)
          => /\ id \notin DOMAIN documents'
             /\ getDocument(documents, id) = {}
             /\ \A k \in 1..Len(getAllDocuments(documents)) : getAllDocuments(documents)[k] # id
     /\ \A id \in DOMAIN documents' \ DOMAIN documents :
          id = nextId /\ response'.op = "upload"
     /\ (served' # served /\ response'.op = "delete"
         /\ response'.id \in Ids /\ Deleted(response'.id))
        => response'.code = 404]_vars

\* C20 witness: a process call that was in flight when its document was
\* deleted has succeeded, and the document is still gone.
C20_Witness ==
  /\ response.op = "process" /\ response.code = 200
  /\ response.id \in Ids
  /\ Deleted(response.id)

(***************************************************************************)
(* Properties of normalization                                             *)
(***************************************************************************)
\* the id-assignment step has run on a field list in which some field lacks an id
IdsAssigned ==
  /\ norm.pc \in {"ids", "normalized"}
  /\ norm.input.fieldsKind = "array"
  /\ \E i \in 1..Len(norm.input.fields) : norm.input.fields[i].id = NoId

\* C8: normalization gives each field lacking an id the id field_<1-based
\* position>, leaves fields that have an id untouched, preserves the array
\* order, and the resulting list contains no two fields with the same id.
C8_SyntheticIdsUnique ==
  IdsAssigned =>
    LET in == norm.input.fields
        out == norm.data.fields
    IN /\ Len(out) = Len(in)
       /\ \A i \in 1..Len(in) :
            out[i] = IF in[i].id = NoId THEN [in[i] EXCEPT !.id = FieldId(i)] ELSE in[i]
       /\ \A i, j \in 1..Len(out) : i # j => out[i].id # out[j].id

\* sections were synthesized from a non-empty field list
SectionsSynthesized ==
  /\ norm.pc = "normalized"
  /\ NeedsSections(norm.input)
  /\ norm.input.fieldsKind = "array"
  /\ Len(norm.input.fields) > 0

RECURSIVE TotalFields(_)
TotalFields(sections) ==
  IF sections = <<>> THEN 0 ELSE Len(Head(sections).fields) + TotalFields(Tail(sections))

\* the sections S group the fields F by Name: one non-empty section per
\* distinct name, in order of first occurrence, numbered from 1, every field
\* in exactly one section, the one titled with its name
GroupedBy(F, S, Name(_)) ==
  /\ Len(S) = Cardinality({Name(F[i]) : i \in 1..Len(F)})
  /\ \A n \in 1..Len(S) :
       /\ S[n].id = SectionId(n)
       /\ S[n].order = n
       /\ Len(S[n].fields) > 0
       /\ \E i \in 1..Len(F) :
            /\ Name(F[i]) = S[n].title
            /\ \A j \in 1..(i - 1) : Name(F[j]) # S[n].title
            /\ \A m \in 1..(n - 1) : \E j \in 1..(i - 1) : Name(F[j]) = S[m].title
  /\ \A i \in 1..Len(F) :
       /\ {n \in 1..Len(S) : \E k \in 1..Len(S[n].fields) : S[n].fields[k] = F[i]}
            = {n \in 1..Len(S) : S[n].title = Name(F[i])}
       /\ Cardinality({n \in 1..Len(S) : S[n].title = Name(F[i])}) = 1
  /\ TotalFields(S) = Len(F)

RawSectionName(f) == f.section

\* C9 as stated: with detectedSections absent, not an array or empty and
\* fields non-empty, there is one synthesized section per distinct section
\* name, in order of first occurrence, with id section_<n> and order n; every
\* field is in exactly one section, the one titled with its section name, and
\* no section is empty.
C9_SectionsPerName ==
  SectionsSynthesized
  => GroupedBy(norm.data.fields, norm.data.detectedSections, RawSectionName)

\* C9 amended: the same, a field with a missing or empty section name
\* counting as named "Document Content".
C9_SectionsPerEffectiveName ==
  SectionsSynthesized
  => GroupedBy(norm.data.fields, norm.data.detectedSections, SectionName)

\* C9 witness: two sections were synthesized, the first for a field without
\* a section name.
C9_Witness ==
  /\ SectionsSynthesized
  /\ Len(norm.data.detectedSections) = 2
  /\ norm.data.fields[1].section = NoSection
  /\ norm.data.detectedSections[1].title = "Document Content"

\* C10: normalization is idempotent: the id-assignment and section-synthesis
\* steps applied to normalized data yield the same fields and the same
\* detectedSections.
C10_NormalizeIdempotent ==
  norm.pc = "renormalized" => norm.data = norm.once

\* the raw JSON holds no fields: fields absent, not an array, or empty
NoFields(d) == d.fieldsKind # "array" \/ Len(d.fields) = 0

\* C29: when the AI response has detectedSections absent or empty and no
\* fields (absent, not an array, or empty), the section step produces
\* exactly two sections, "Document Information" and "Content", each with
\* an empty fields list, ids section_1 and section_2, orders 1 and 2.
C29_DefaultSections ==
  (norm.pc \in {"normalized", "threw"} /\ NeedsSections(norm.input) /\ NoFields(norm.input))
  => /\ norm.pc = "normalized"
     /\ norm.data.sectionsKind = "array"
     /\ Len(norm.data.detectedSections) = 2
     /\ norm.data.detectedSections[1].title = "Document Information"
     /\ norm.data.detectedSections[2].title = "Content"
     /\ \A i \in 1..2 :
          /\ norm.data.detectedSections[i].fields = <<>>
          /\ norm.data.detectedSections[i].id = "section_" \o ToString(i)
          /\ norm.data.detectedSections[i].order = i

\* C10 witness: data that needed both ids and sections was normalized twice.
C10_Witness ==
  /\ norm.pc = "renormalized"
  /\ NeedsSections(norm.input)
  /\ norm.input.fieldsKind = "array"
  /\ \E i \in 1..Len(norm.input.fields) : norm.input.fields[i].id = NoId
  /\ norm.once # norm.input
====
